---- MODULE Spec2Model ----
(***************************************************************************)
(* Model of is-online: the library (src/src/lib.rs) and its command-line   *)
(* driver (src/src/main.rs).                                               *)
(*                                                                         *)
(* Strings are modelled by what the parsers of the program make of them:   *)
(*   [kind |-> "name", id]                 a host name (no parse succeeds) *)
(*   [kind |-> "ip",  fam, hi, lo]         an IP literal                   *)
(*   [kind |-> "net", fam, hi, lo, prefix] a CIDR network                  *)
(* An IP address is [fam, hi, lo]: fam is 4 or 6, lo is the lowest octet   *)
(* and hi the value of all bits above it (24 bits for IPv4).               *)
(***************************************************************************)
EXTENDS Integers, Sequences, FiniteSets, TLC

VARIABLES
    pc,          \* position of the running program / client
    targets,     \* input of expand_subnets (cli.hosts or the lines of stdin)
    hosts,       \* expanded target list (main.rs `hosts`), input of resolve_hosts
    dns,         \* per target: what the platform resolver answered
    slot,        \* per target: result of Host::from_str inside resolve_hosts
    resolved,    \* Vec<Host> returned by resolve_hosts
    protocol,    \* TcpPortCheck.protocol
    strategy,    \* TcpPortCheck.strategy
    probed,      \* per host, per address: outcome of the connect attempt made
    verdict,     \* per host: result of TcpPortCheck::is_online
    online,      \* Vec<Host> returned by collect_online
    cli,         \* the flags of main.rs the loop reads: fail, wait
    round,       \* number of the current iteration of the loop of main
    exit_code,   \* exit code computed in the current round
    calls        \* log of standalone is_port_online calls

vars == <<pc, targets, hosts, dns, slot, resolved, protocol, strategy,
          probed, verdict, online, cli, round, exit_code, calls>>

-----------------------------------------------------------------------------
(* Bounds *)

MaxTargets == 2

HostBitsMax == 3

MaxHosts == 2

MaxRounds == 2

MaxCalls == 3

-----------------------------------------------------------------------------
(* Addresses and strings *)

\* upper 24 bits of 255.255.255.x
AllOnesHi == (2 ^ 24) - 1

\* upper 24 bits of 192.0.2.x
DocNetHi == (192 * 65536) + (0 * 256) + 2

Pow2(n) == 2 ^ n

AddrBits(fam) == IF fam = 4 THEN 32 ELSE 128

Addr(fam, hi, lo) == [fam |-> fam, hi |-> hi, lo |-> lo]

\* Ipv4Addr::is_unspecified / Ipv6Addr::is_unspecified: the all-zero address
is_unspecified(a) == a.hi = 0 /\ a.lo = 0

\* Ipv4Addr::is_broadcast: 255.255.255.255
is_broadcast(a) == a.fam = 4 /\ a.hi = AllOnesHi /\ a.lo = 255

is_ipv4(a) == a.fam = 4

is_ipv6(a) == a.fam = 6

\* Display of an address: the IP literal that parses back to it
to_string(a) == [kind |-> "ip", fam |-> a.fam, hi |-> a.hi, lo |-> a.lo]

\* IpAddr::from_str
IpAddr_from_str(s) ==
    IF s.kind = "ip"
    THEN [ok |-> TRUE, addr |-> Addr(s.fam, s.hi, s.lo)]
    ELSE [ok |-> FALSE]

\* Ipv4Net::from_str / Ipv6Net::from_str: an address, a slash and a prefix length
IpNet_from_str(fam, s) ==
    IF s.kind = "net" /\ s.fam = fam
    THEN [ok |-> TRUE, fam |-> s.fam, hi |-> s.hi, lo |-> s.lo, prefix |-> s.prefix]
    ELSE [ok |-> FALSE]

HostBits(net) == AddrBits(net.fam) - net.prefix

\* IpNet::network: the address with the host bits cleared
network(net) == Addr(net.fam, net.hi, net.lo - (net.lo % Pow2(HostBits(net))))

\* IpNet::broadcast: the address with the host bits set
broadcast(net) == Addr(net.fam, net.hi, network(net).lo + Pow2(HostBits(net)) - 1)

AddrRange(fam, hi, first, last) ==
    IF last < first THEN << >>
    ELSE [k \in 1..(last - first + 1) |-> Addr(fam, hi, first + k - 1)]

\* Ipv4Net::hosts: network() ..= broadcast(), both ends left out below /31
\* Ipv6Net::hosts: network() ..= broadcast()
net_hosts(net) ==
    LET start == network(net).lo
        end   == broadcast(net).lo
    IN  IF net.fam = 4 /\ net.prefix < 31
        THEN AddrRange(net.fam, net.hi, start + 1, end - 1)
        ELSE AddrRange(net.fam, net.hi, start, end)

RECURSIVE MapToString(_)
MapToString(as) ==
    IF as = << >> THEN << >>
    ELSE <<to_string(Head(as))>> \o MapToString(Tail(as))

KeepV4(a) == ~(is_unspecified(a) \/ is_broadcast(a))

KeepV6(a) == ~is_unspecified(a)

\* body of the loop of expand_subnets for one entry
expand_one(host) ==
    LET net4 == IpNet_from_str(4, host)
        net6 == IpNet_from_str(6, host)
    IN  IF net4.ok THEN MapToString(SelectSeq(net_hosts(net4), KeepV4))
        ELSE IF net6.ok THEN MapToString(SelectSeq(net_hosts(net6), KeepV6))
        ELSE <<host>>

RECURSIVE expand_subnets(_)
expand_subnets(hs) ==
    IF hs = << >> THEN << >>
    ELSE expand_one(Head(hs)) \o expand_subnets(Tail(hs))

-----------------------------------------------------------------------------
(* Input sets *)

Names == {[kind |-> "name", id |-> n] : n \in {"a", "b"}}

V4A == Addr(4, DocNetHi, 1)

V4B == Addr(4, DocNetHi, 2)

V6A == Addr(6, 1, 1)

IpLiterals == {to_string(V4A), to_string(V6A)}

PrefixLens(fam) == (AddrBits(fam) - HostBitsMax)..AddrBits(fam)

Nets4 == {[kind |-> "net", fam |-> 4, hi |-> h, lo |-> l, prefix |-> p] :
            h \in {0, DocNetHi, AllOnesHi}, l \in {0, 1, 254, 255}, p \in PrefixLens(4)}

Nets6 == {[kind |-> "net", fam |-> 6, hi |-> h, lo |-> l, prefix |-> p] :
            h \in {0, 1}, l \in {0, 1}, p \in PrefixLens(6)}

SeqsUpTo(S, n) == UNION {[1..k -> S] : k \in 0..n}

-----------------------------------------------------------------------------
(* expand_subnets called on its own *)

InitExpand ==
    /\ pc = "expand"
    /\ targets \in SeqsUpTo(Names \cup IpLiterals \cup Nets4 \cup Nets6, MaxTargets)
    /\ hosts = << >> /\ dns = << >> /\ slot = << >>
    /\ resolved = << >> /\ protocol = "Both" /\ strategy = "Any"
    /\ probed = << >> /\ verdict = << >> /\ online = << >>
    /\ cli = [fail |-> FALSE, wait |-> FALSE] /\ round = 0 /\ exit_code = 0
    /\ calls = << >>

Expand ==
    /\ pc = "expand"
    /\ hosts' = expand_subnets(targets)
    /\ pc' = "expanded"
    /\ UNCHANGED <<targets, dns, slot, resolved, protocol, strategy, probed,
                   verdict, online, cli, round, exit_code, calls>>

NextExpand == Expand

SpecExpand == InitExpand /\ [][NextExpand]_vars

-----------------------------------------------------------------------------
(* is_port_online called on its own, MaxCalls times *)

ErrorKinds == {"TimedOut", "ConnectionRefused", "NetworkUnreachable", "InvalidInput"}

\* what TcpStream::connect_timeout can return
ConnectResults == {[ok |-> TRUE]} \cup {[ok |-> FALSE, kind |-> k] : k \in ErrorKinds}

Ok(v) == [ok |-> TRUE, value |-> v]

Err(k) == [ok |-> FALSE, kind |-> k]

is_port_online_refused_is_closed(stream) ==
    IF ~stream.ok
    THEN IF stream.kind \in {"TimedOut", "ConnectionRefused"} THEN Ok(FALSE) ELSE Err(stream.kind)
    ELSE Ok(TRUE)

is_port_online(stream) ==
    IF ~stream.ok
    THEN IF stream.kind = "TimedOut" THEN Ok(FALSE) ELSE Err(stream.kind)
    ELSE Ok(TRUE)

InitPort ==
    /\ pc = "calls"
    /\ targets = << >> /\ hosts = << >> /\ dns = << >> /\ slot = << >>
    /\ resolved = << >> /\ protocol = "Both" /\ strategy = "Any"
    /\ probed = << >> /\ verdict = << >> /\ online = << >>
    /\ cli = [fail |-> FALSE, wait |-> FALSE] /\ round = 0 /\ exit_code = 0
    /\ calls = << >>

PortCall ==
    /\ pc = "calls"
    /\ Len(calls) < MaxCalls
    /\ \E addr \in {V4A, V6A}, stream \in ConnectResults :
         calls' = Append(calls, [addr |-> addr, stream |-> stream,
                                 ret |-> is_port_online(stream)])
    /\ UNCHANGED <<pc, targets, hosts, dns, slot, resolved, protocol, strategy,
                   probed, verdict, online, cli, round, exit_code>>

NextPort == PortCall

SpecPort == InitPort /\ [][NextPort]_vars

-----------------------------------------------------------------------------
(* resolve_hosts: Host::from_str on every target, in parallel *)

Host(name, addresses) == [name |-> name, addresses |-> addresses]

Pending == [st |-> "pending"]

None == [st |-> "none"]

Some(h) == [st |-> "some", host |-> h]

Unasked == [st |-> "unasked"]

LookupErr == [st |-> "err"]

LookupOk(as) == [st |-> "ok", addrs |-> as]

\* what "<name>:0".to_socket_addrs() can return for a host name
DnsResults == {LookupErr} \cup
    {LookupOk(as) : as \in {<< >>, <<V4A>>, <<V6A>>, <<V4A, V6A>>, <<V6A, V4A>>, <<V4A, V4B>>}}

\* a string that is not a host name does not resolve
LookupResults(s) == IF s.kind = "name" THEN DnsResults ELSE {LookupErr}

\* resolve_hostname, r being the answer of to_socket_addrs
resolve_hostname(name, r) ==
    LET ip == IpAddr_from_str(name)
    IN  IF ip.ok THEN [ok |-> TRUE, addresses |-> <<ip.addr>>]
        ELSE IF r.st = "ok" THEN [ok |-> TRUE, addresses |-> r.addrs]
        ELSE [ok |-> FALSE]

\* Host::from_str mapped through the closure of filter_map
Host_from_str(host, r) ==
    LET ip == IpAddr_from_str(host)
    IN  IF ip.ok THEN Some(Host(host, <<ip.addr>>))
        ELSE LET addresses == resolve_hostname(host, r)
             IN  IF addresses.ok THEN Some(Host(host, addresses.addresses))
                 ELSE None

RECURSIVE filter_map_stop_at_none(_)
filter_map_stop_at_none(slots) ==
    IF slots = << >> THEN << >>
    ELSE IF Head(slots).st = "some"
         THEN <<Head(slots).host>> \o filter_map_stop_at_none(Tail(slots))
         ELSE << >>

\* filter_map(..).collect(): the hosts of the Some results
RECURSIVE filter_map_collect(_)
filter_map_collect(slots) ==
    IF slots = << >> THEN << >>
    ELSE IF Head(slots).st = "some"
         THEN <<Head(slots).host>> \o filter_map_collect(Tail(slots))
         ELSE filter_map_collect(Tail(slots))

InitResolve ==
    /\ pc = "resolve"
    /\ hosts \in SeqsUpTo(Names \cup IpLiterals, MaxTargets)
    /\ dns = [i \in 1..Len(hosts) |-> Unasked]
    /\ slot = [i \in 1..Len(hosts) |-> Pending]
    /\ targets = << >>
    /\ resolved = << >> /\ protocol = "Both" /\ strategy = "Any"
    /\ probed = << >> /\ verdict = << >> /\ online = << >>
    /\ cli = [fail |-> FALSE, wait |-> FALSE] /\ round = 0 /\ exit_code = 0
    /\ calls = << >>

\* one worker runs the closure on target i
FromStr(i) ==
    /\ pc = "resolve"
    /\ slot[i] = Pending
    /\ \E r \in LookupResults(hosts[i]) :
         /\ dns' = IF IpAddr_from_str(hosts[i]).ok THEN dns ELSE [dns EXCEPT ![i] = r]
         /\ slot' = [slot EXCEPT ![i] = Host_from_str(hosts[i], r)]
    /\ UNCHANGED <<pc, targets, hosts, resolved, protocol, strategy, probed,
                   verdict, online, cli, round, exit_code, calls>>

\* all workers joined: resolve_hosts returns
ResolveCollect ==
    /\ pc = "resolve"
    /\ \A i \in 1..Len(hosts) : slot[i] # Pending
    /\ resolved' = filter_map_collect(slot)
    /\ pc' = "resolved"
    /\ UNCHANGED <<targets, hosts, dns, slot, protocol, strategy, probed,
                   verdict, online, cli, round, exit_code, calls>>

NextResolve ==
    \/ \E i \in 1..Len(hosts) : FromStr(i)
    \/ ResolveCollect

SpecResolve == InitResolve /\ [][NextResolve]_vars

-----------------------------------------------------------------------------
(* TcpPortCheck: is_online on every host in parallel, every address of a   *)
(* host in parallel with a short-circuiting any / all                      *)

Protocols == {"Both", "V4", "V6"}

Strategies == {"Any", "All"}

\* what connect_timeout answers to the probes of a check
ProbeResults == {[ok |-> TRUE], [ok |-> FALSE, kind |-> "TimedOut"],
                 [ok |-> FALSE, kind |-> "ConnectionRefused"]}

NotProbed == [st |-> "none"]

Undecided == [done |-> FALSE]

Decided(b) == [done |-> TRUE, value |-> b]

\* the match on self.protocol in is_online
eligible(proto, a) ==
    CASE proto = "Both" -> TRUE
      [] proto = "V4"   -> is_ipv4(a)
      [] proto = "V6"   -> is_ipv6(a)

is_open_port_unless_timeout(stream) == stream.ok \/ stream.kind # "TimedOut"

\* is_open_port: true for an established connection, false for any error
is_open_port(stream) == stream.ok

is_online_ret_no_empty_check(proto, strat, host, pr) ==
    LET addrs  == {k \in 1..Len(host.addresses) : eligible(proto, host.addresses[k])}
        done   == {k \in addrs : pr[k] # NotProbed}
        hits   == {k \in done : is_open_port(pr[k])}
        misses == done \ hits
    IN  CASE strat = "Any" ->
               IF hits # {} THEN Decided(TRUE)
               ELSE IF done = addrs THEN Decided(FALSE) ELSE Undecided
          [] strat = "All" ->
               IF misses # {} THEN Decided(FALSE)
               ELSE IF done = addrs THEN Decided(TRUE) ELSE Undecided

\* is_online, pr being the probes that have answered so far: the value it
\* returns, if it can return already
is_online_ret(proto, strat, host, pr) ==
    LET addrs  == {k \in 1..Len(host.addresses) : eligible(proto, host.addresses[k])}
        done   == {k \in addrs : pr[k] # NotProbed}
        hits   == {k \in done : is_open_port(pr[k])}
        misses == done \ hits
    IN  IF addrs = {} THEN Decided(FALSE)
        ELSE CASE strat = "Any" ->
                    IF hits # {} THEN Decided(TRUE)
                    ELSE IF done = addrs THEN Decided(FALSE) ELSE Undecided
               [] strat = "All" ->
                    IF misses # {} THEN Decided(FALSE)
                    ELSE IF done = addrs THEN Decided(TRUE) ELSE Undecided

RECURSIVE filter_cloned_dedup(_, _)
filter_cloned_dedup(hs, vs) ==
    IF hs = << >> THEN << >>
    ELSE LET rest == filter_cloned_dedup(Tail(hs), Tail(vs))
         IN  IF Head(vs).value /\ \A k \in 1..Len(rest) : rest[k] # Head(hs)
             THEN <<Head(hs)>> \o rest
             ELSE rest

\* filter(is_online).cloned().collect()
RECURSIVE filter_cloned_collect(_, _)
filter_cloned_collect(hs, vs) ==
    IF hs = << >> THEN << >>
    ELSE IF Head(vs).value
         THEN <<Head(hs)>> \o filter_cloned_collect(Tail(hs), Tail(vs))
         ELSE filter_cloned_collect(Tail(hs), Tail(vs))

CheckHosts == {Host([kind |-> "name", id |-> "a"], <<V4A, V6A>>),
               Host([kind |-> "name", id |-> "b"], <<V4A, V4B>>)}

InitCheck ==
    /\ pc = "probe"
    /\ resolved \in SeqsUpTo(CheckHosts, MaxHosts)
    /\ protocol \in Protocols
    /\ strategy \in Strategies
    /\ probed = [j \in 1..Len(resolved) |->
                   [k \in 1..Len(resolved[j].addresses) |-> NotProbed]]
    /\ verdict = [j \in 1..Len(resolved) |-> Undecided]
    /\ online = << >>
    /\ targets = << >> /\ hosts = << >> /\ dns = << >> /\ slot = << >>
    /\ cli = [fail |-> FALSE, wait |-> FALSE] /\ round = 0 /\ exit_code = 0
    /\ calls = << >>

\* one worker runs is_open_port on address k of host j
Probe(j, k) ==
    /\ pc = "probe"
    /\ ~verdict[j].done
    /\ eligible(protocol, resolved[j].addresses[k])
    /\ probed[j][k] = NotProbed
    /\ \E stream \in ProbeResults : probed' = [probed EXCEPT ![j][k] = stream]
    /\ UNCHANGED <<pc, targets, hosts, dns, slot, resolved, protocol, strategy,
                   verdict, online, cli, round, exit_code, calls>>

\* is_online(host j) returns
IsOnlineReturn(j) ==
    /\ pc = "probe"
    /\ ~verdict[j].done
    /\ is_online_ret(protocol, strategy, resolved[j], probed[j]).done
    /\ verdict' = [verdict EXCEPT
                     ![j] = is_online_ret(protocol, strategy, resolved[j], probed[j])]
    /\ UNCHANGED <<pc, targets, hosts, dns, slot, resolved, protocol, strategy,
                   probed, online, cli, round, exit_code, calls>>

\* all workers joined: collect_online returns
CollectOnline ==
    /\ pc = "probe"
    /\ \A j \in 1..Len(resolved) : verdict[j].done
    /\ online' = filter_cloned_collect(resolved, verdict)
    /\ pc' = "collected"
    /\ UNCHANGED <<targets, hosts, dns, slot, resolved, protocol, strategy,
                   probed, verdict, cli, round, exit_code, calls>>

NextCheck ==
    \/ \E j \in 1..Len(resolved) : \E k \in 1..Len(resolved[j].addresses) : Probe(j, k)
    \/ \E j \in 1..Len(resolved) : IsOnlineReturn(j)
    \/ CollectOnline

SpecCheck == InitCheck /\ [][NextCheck]_vars

-----------------------------------------------------------------------------
(* main: expand once, then rounds of resolve_hosts and collect_online *)

\* resolve_hosts given the answer of the resolver for every target
resolve_hosts(hs, rs) ==
    filter_map_collect([i \in 1..Len(hs) |-> Host_from_str(hs[i], rs[i])])

\* collect_online given the answer of every probe
collect_online(proto, strat, hs, prs) ==
    filter_cloned_collect(hs, [j \in 1..Len(hs) |-> is_online_ret(proto, strat, hs[j], prs[j])])

\* the HashSet of the names of a Vec<Host>
NameSet(hs) == {hs[k].name : k \in 1..Len(hs)}

\* the exit code of a round
ExitCode(fail, online_len, hosts_len) == IF fail /\ online_len # hosts_len THEN 1 ELSE 0

try_again_ignoring_wait(wait, hs, online_names) ==
    \E i \in 1..Len(hs) : hs[i] \notin online_names

\* cli.wait && hosts.iter().any(|h| !online.contains(h))
try_again(wait, hs, online_names) ==
    wait /\ \E i \in 1..Len(hs) : hs[i] \notin online_names

MainTargets == {[kind |-> "name", id |-> "a"],
                [kind |-> "net", fam |-> 4, hi |-> DocNetHi, lo |-> 1, prefix |-> 32],
                [kind |-> "net", fam |-> 4, hi |-> 0, lo |-> 0, prefix |-> 32]}

MainDnsResults == {LookupErr, LookupOk(<<V4A>>), LookupOk(<<V4A, V6A>>)}

MainProbeResults == {[ok |-> TRUE], [ok |-> FALSE, kind |-> "TimedOut"]}

InitMain ==
    /\ pc = "start"
    /\ cli \in [fail : BOOLEAN, wait : BOOLEAN]
    /\ protocol \in Protocols
    /\ strategy \in Strategies
    /\ targets \in SeqsUpTo(MainTargets, MaxTargets)
    /\ hosts = << >> /\ dns = << >> /\ slot = << >>
    /\ resolved = << >> /\ probed = << >> /\ verdict = << >> /\ online = << >>
    /\ round = 0 /\ exit_code = 0
    /\ calls = << >>

\* main.rs before the loop
MainExpand ==
    /\ pc = "start"
    /\ hosts' = expand_subnets(targets)
    /\ round' = 1
    /\ pc' = "resolve"
    /\ UNCHANGED <<targets, dns, slot, resolved, protocol, strategy, probed,
                   verdict, online, cli, exit_code, calls>>

\* let resolved = resolve_hosts(&hosts)
MainResolve ==
    /\ pc = "resolve"
    /\ \E rs \in [1..Len(hosts) -> MainDnsResults] :
         resolved' = resolve_hosts(hosts, rs)
    /\ pc' = "probe"
    /\ UNCHANGED <<targets, hosts, dns, slot, protocol, strategy, probed,
                   verdict, online, cli, round, exit_code, calls>>

\* let online = check.collect_online(&resolved)
MainProbe ==
    /\ pc = "probe"
    /\ \E prs \in [1..Len(resolved) -> [1..2 -> MainProbeResults]] :
         online' = collect_online(protocol, strategy, resolved, prs)
    /\ pc' = "decide"
    /\ UNCHANGED <<targets, hosts, dns, slot, resolved, protocol, strategy,
                   probed, verdict, cli, round, exit_code, calls>>

\* the rest of the loop body: exit code, then exit or sleep and loop
MainDecide ==
    /\ pc = "decide"
    /\ exit_code' = ExitCode(cli.fail, Cardinality(NameSet(online)), Len(hosts))
    /\ IF ~try_again(cli.wait, hosts, NameSet(online))
       THEN pc' = "exited" /\ round' = round
       ELSE round < MaxRounds /\ pc' = "resolve" /\ round' = round + 1
    /\ UNCHANGED <<targets, hosts, dns, slot, resolved, protocol, strategy,
                   probed, verdict, online, cli, calls>>

NextMain ==
    \/ MainExpand
    \/ MainResolve
    \/ MainProbe
    \/ MainDecide

SpecMain == InitMain /\ [][NextMain]_vars

-----------------------------------------------------------------------------
(* Properties of expand_subnets *)

\* the addresses the claim lists for an IPv4 network, as strings
UsableV4(net) ==
    LET size  == Pow2(32 - net.prefix)
        base  == net.lo - (net.lo % size)
        first == IF net.prefix < 31 THEN base + 1 ELSE base
        last  == IF net.prefix < 31 THEN base + size - 2 ELSE base + size - 1
    IN  [k \in 1..(last - first + 1) |-> to_string(Addr(4, net.hi, first + k - 1))]

RECURSIVE ExpectedExpansion(_)
ExpectedExpansion(hs) ==
    IF hs = << >> THEN << >>
    ELSE (IF Head(hs).kind = "net" /\ Head(hs).fam = 4
          THEN UsableV4(Head(hs)) ELSE expand_one(Head(hs)))
         \o ExpectedExpansion(Tail(hs))

\* C7: every IPv4 CIDR entry is expanded to its usable host addresses in
\* ascending order, each once: the addresses strictly between the network
\* and the broadcast address below /31, all addresses of a /31 or /32.
C7_Ipv4Expansion == pc = "expanded" => hosts = ExpectedExpansion(targets)

\* C8: expand_subnets returns at least as many strings as it was given.
C8_LengthAtLeastInput == pc = "expanded" => Len(hosts) >= Len(targets)

-----------------------------------------------------------------------------
(* Properties of is_port_online *)

\* C3: Ok(true) for an established connection, Ok(false) exactly for a
\* timeout, Err with the same error for every other failure.
C3_PortOnlineResult ==
    \A k \in 1..Len(calls) :
        LET c == calls[k]
        IN  /\ c.stream.ok => c.ret = [ok |-> TRUE, value |-> TRUE]
            /\ (c.ret = [ok |-> TRUE, value |-> FALSE])
                   <=> (~c.stream.ok /\ c.stream.kind = "TimedOut")
            /\ (~c.stream.ok /\ c.stream.kind # "TimedOut")
                   => c.ret = [ok |-> FALSE, kind |-> c.stream.kind]

C3_Witness ==
    \E j, k, l \in 1..Len(calls) :
        /\ calls[j].stream.ok
        /\ ~calls[k].stream.ok /\ calls[k].stream.kind = "TimedOut"
        /\ ~calls[l].stream.ok /\ calls[l].stream.kind = "ConnectionRefused"
           /\ ~calls[l].ret.ok

-----------------------------------------------------------------------------
(* Properties of resolve_hosts *)

IsIpLiteral(s) == IpAddr_from_str(s).ok

\* the resolution of target i succeeded: a literal, or the lookup answered
Succeeds(i) == IsIpLiteral(hosts[i]) \/ dns[i].st = "ok"

\* C5: resolve_hosts returns one Host, named like the target, per target
\* whose resolution succeeded and nothing for the others.
C5_ResolvedExactlySuccesses ==
    pc = "resolved" =>
        /\ Len(resolved) = Cardinality({i \in 1..Len(hosts) : Succeeds(i)})
        /\ \A s \in {hosts[i] : i \in 1..Len(hosts)} :
             Cardinality({k \in 1..Len(resolved) : resolved[k].name = s})
               = Cardinality({i \in 1..Len(hosts) : hosts[i] = s /\ Succeeds(i)})

C5_Witness ==
    /\ pc = "resolved"
    /\ Len(hosts) >= 2
    /\ dns[1].st = "err"
    /\ Succeeds(2)
    /\ Len(resolved) = Len(hosts) - 1

\* C6: every Host produced by the resolver has at least one address.
C6_HostHasAddress ==
    /\ \A i \in 1..Len(slot) : slot[i].st = "some" => Len(slot[i].host.addresses) >= 1
    /\ \A k \in 1..Len(resolved) : Len(resolved[k].addresses) >= 1

-----------------------------------------------------------------------------
(* Properties of TcpPortCheck *)

\* the addresses of host j that pass the family filter
Filtered(j) ==
    {k \in 1..Len(resolved[j].addresses) :
        \/ protocol = "Both"
        \/ protocol = "V4" /\ resolved[j].addresses[k].fam = 4
        \/ protocol = "V6" /\ resolved[j].addresses[k].fam = 6}

\* the assignments of outcomes to the filtered addresses of host j that
\* agree with the probes that answered
Outcomes(j) ==
    {c \in [Filtered(j) -> ProbeResults] :
        \A k \in Filtered(j) : probed[j][k] # NotProbed => c[k] = probed[j][k]}

\* C1: with a filtered address, is_online is true under Any iff some
\* filtered address is open and under All iff every filtered address is
\* open, closed and failed probes alike counting as not open.
C1_VerdictIsFold ==
    \A j \in 1..Len(verdict) :
        (verdict[j].done /\ Filtered(j) # {}) =>
            \A c \in Outcomes(j) :
                verdict[j].value =
                    IF strategy = "Any"
                    THEN \E k \in Filtered(j) : c[k].ok
                    ELSE \A k \in Filtered(j) : c[k].ok

C1_Witness ==
    \E j \in 1..Len(verdict) :
        /\ verdict[j].done /\ ~verdict[j].value
        /\ strategy = "Any"
        /\ Cardinality(Filtered(j)) = 2
        /\ \E k, l \in Filtered(j) :
             /\ probed[j][k] = [ok |-> FALSE, kind |-> "TimedOut"]
             /\ probed[j][l] = [ok |-> FALSE, kind |-> "ConnectionRefused"]

\* C2: a host without a filtered address is offline under both strategies
\* and none of its addresses is probed.
C2_NoEligibleAddressOffline ==
    \A j \in 1..Len(verdict) :
        Filtered(j) = {} =>
            /\ verdict[j].done => ~verdict[j].value
            /\ \A k \in 1..Len(probed[j]) : probed[j][k] = NotProbed

C2_Witness ==
    \E j \in 1..Len(verdict) :
        /\ protocol = "V6" /\ strategy = "All"
        /\ Filtered(j) = {}
        /\ verdict[j].done
        /\ pc = "collected"

\* C4: collect_online returns the hosts of its input whose is_online
\* verdict is true, each as often as it is in the input with that verdict.
C4_OnlineExactlyTrueVerdicts ==
    pc = "collected" =>
        /\ Len(online) = Cardinality({j \in 1..Len(resolved) : verdict[j].value})
        /\ \A h \in {resolved[j] : j \in 1..Len(resolved)} :
             Cardinality({k \in 1..Len(online) : online[k] = h})
               = Cardinality({j \in 1..Len(resolved) : resolved[j] = h /\ verdict[j].value})

C4_Witness ==
    /\ pc = "collected"
    /\ Len(resolved) = 2
    /\ resolved[1] = resolved[2]
    /\ verdict[1].value /\ verdict[2].value
    /\ Len(online) = 2

-----------------------------------------------------------------------------
(* Properties of main *)

AllOnline == \A i \in 1..Len(hosts) : hosts[i] \in NameSet(online)

\* C9: the exit code is 1 iff --fail was given and some target of the
\* expanded list is not online in the final round.
C9_ExitCode ==
    pc = "exited" => (exit_code = 1 <=> (cli.fail /\ ~AllOnline))

\* C10: the list is expanded once, before the first round; the phases of a
\* round follow one another; a new round starts only from the end of the
\* previous one, with --wait and a target that was not online; the program
\* exits at the end of the first round in which every target is online, and
\* without --wait after one round.
C10_Step ==
    /\ hosts' # hosts => pc = "start"
    /\ targets' = targets
    /\ pc' # pc =>
         \/ pc = "start" /\ pc' = "resolve"
         \/ pc = "resolve" /\ pc' = "probe"
         \/ pc = "probe" /\ pc' = "decide"
         \/ pc = "decide" /\ pc' \in {"resolve", "exited"}
    /\ round' # round =>
         \/ pc = "start" /\ round' = 1
         \/ /\ pc = "decide" /\ pc' = "resolve" /\ round' = round + 1
            /\ cli.wait /\ ~AllOnline
    /\ (pc = "decide" /\ pc' = "resolve") => round' = round + 1
    /\ (pc = "decide" /\ AllOnline) => pc' = "exited"
    /\ (pc' = "exited" /\ ~cli.wait) => round' = 1

C10_RoundsInSequence == [][C10_Step]_vars

C10_Witness == pc = "exited" /\ round = 2 /\ cli.wait /\ AllOnline /\ Len(hosts) >= 1

====
